---- MODULE Spec2Model ----
(***************************************************************************)
(* frozen::set<Key, N, Compare> (include/frozen/set.h): an immutable,      *)
(* fixed-capacity sorted set.  Construction sorts the keys once; the       *)
(* queries are binary searches over the stored array.                      *)
(*                                                                         *)
(* Positions (iterators) are offsets from keys_.begin(): begin is 0 and    *)
(* end is N.  Every query returns a record [val, calls]: its result and    *)
(* the number of comparator invocations it made.                           *)
(***************************************************************************)
EXTENDS Integers, Sequences, FiniteSets, Bags, TLC

\* ---- bounds ----
MaxN == 3
MaxKey == 3

Keys == 0..MaxKey
Capacities == 0..MaxN

\* ---- the Compare template parameter ----
\* Instances of one stateful comparator type: each is a strict weak order.
Comparators == {"less", "greater", "lessHalf"}

\* Compare{} : the default-constructed comparator
DefaultCompare == "less"

\* compare(c, a, b): c(a, b), "a is ordered before b"
compare(c, a, b) ==
  CASE c = "less" -> a < b
    [] c = "greater" -> a > b
    [] c = "lessHalf" -> (a \div 2) < (b \div 2)

\* sequences of keys of length n, and of length at most n
SeqsOfLen(n) == [1..n -> Keys]
SeqsUpTo(n) == UNION {SeqsOfLen(k) : k \in 0..n}

\* ---- bits::carray ----
\* carray<Key, N>{initializer_list}: the first N keys of the list
carray_from_list(n, list) == SubSeq(list, 1, n)

\* ---- bits::quicksort ----
SelectLess(s, c, pivot) == SelectSeq(s, LAMBDA x : compare(c, x, pivot))
SelectNotLess(s, c, pivot) == SelectSeq(s, LAMBDA x : ~compare(c, x, pivot))

RemoveAt(s, i) == SubSeq(s, 1, i - 1) \o SubSeq(s, i + 1, Len(s))

RECURSIVE quicksort(_, _)
quicksort(keys, c) ==
  IF Len(keys) <= 1 THEN keys
  ELSE LET mid == (Len(keys) + 1) \div 2
           pivot == keys[mid]
           rest == RemoveAt(keys, mid)
       IN quicksort(SelectLess(rest, c, pivot), c)
            \o <<pivot>>
            \o quicksort(SelectNotLess(rest, c, pivot), c)

\* ---- bits::lower_bound ----
\* halving search over [first, first + count); returns [val, calls]
RECURSIVE lower_bound_loop(_, _, _, _, _, _)
lower_bound_loop(keys, key, c, first, count, calls) ==
  IF count = 0 THEN [val |-> first, calls |-> calls]
  ELSE LET step == count \div 2
           it == first + step
       IN IF compare(c, keys[it + 1], key)
          THEN lower_bound_loop(keys, key, c, it + 1, count - (step + 1), calls + 1)
          ELSE lower_bound_loop(keys, key, c, first, step, calls + 1)

bits_lower_bound(keys, key, c) == lower_bound_loop(keys, key, c, 0, Len(keys), 0)

\* ---- bits::binary_search ----
bits_binary_search(keys, key, c) ==
  LET where == bits_lower_bound(keys, key, c)
  IN IF where.val # Len(keys)
     THEN [val |-> ~compare(c, key, keys[where.val + 1]), calls |-> where.calls + 1]
     ELSE [val |-> FALSE, calls |-> where.calls]

\* ---- frozen::set<Key, N, Compare>, N > 0 ----
\* an object is the record [compare_, keys_]

\* variants of the constructor: the sort left out; repeated keys collapsed
set_ctor_unsorted(keys, comp) == [compare_ |-> comp, keys_ |-> keys]
set_ctor_dedup(keys, comp) ==
  LET sorted == quicksort(keys, comp)
  IN [compare_ |-> comp,
      keys_ |-> [i \in 1..Len(sorted) |->
                   IF i > 1 /\ ~compare(comp, sorted[i - 1], sorted[i])
                   THEN sorted[1] ELSE sorted[i]]]

\* set(container_type keys, Compare const& comp)
set_ctor(keys, comp) ==
  LET cmp == comp
  IN [compare_ |-> cmp, keys_ |-> quicksort(keys, cmp)]

\* explicit set(container_type keys)
set_ctor_default(keys) == set_ctor(keys, DefaultCompare)

\* constexpr_assert(cond, msg): TRUE iff construction goes on
constexpr_assert(cond) == cond

\* set(std::initializer_list<Key> keys, Compare const& comp)
\* [ok, obj]: ok is FALSE when the assertion aborts the construction
set_ctor_list(n, list, comp) ==
  IF constexpr_assert(Len(list) = n)
  THEN [ok |-> TRUE, obj |-> set_ctor(carray_from_list(n, list), comp)]
  ELSE [ok |-> FALSE, obj |-> [compare_ |-> comp, keys_ |-> <<>>]]

\* set(std::initializer_list<Key> keys)
set_ctor_list_default(n, list) == set_ctor_list(n, list, DefaultCompare)

set_empty(keys) == Len(keys) = 0
set_size(keys) == Len(keys)
set_max_size(keys) == Len(keys)

set_begin(keys) == 0
set_end(keys) == Len(keys)
\* reverse iterators, given by the position of their base iterator
set_rbegin(keys) == Len(keys)
set_rend(keys) == 0

\* variant of count: multiset count
set_count_multi(keys, c, key) ==
  [val |-> Cardinality({i \in 1..Len(keys) :
                          ~compare(c, keys[i], key) /\ ~compare(c, key, keys[i])}),
   calls |-> 2 * Len(keys)]

set_count(keys, c, key) ==
  LET r == bits_binary_search(keys, key, c)
  IN [val |-> IF r.val THEN 1 ELSE 0, calls |-> r.calls]

set_lower_bound(keys, c, key) ==
  LET where == bits_lower_bound(keys, key, c)
  IN IF where.val # set_end(keys)
     THEN [val |-> IF ~compare(c, key, keys[where.val + 1])
                   THEN where.val ELSE set_end(keys),
           calls |-> where.calls + 1]
     ELSE [val |-> set_end(keys), calls |-> where.calls]

\* variant of find: the negation of the equivalence test is lost
set_find_negated(keys, c, key) ==
  LET where == set_lower_bound(keys, c, key)
  IN IF where.val # set_end(keys)
     THEN [val |-> IF compare(c, key, keys[where.val + 1])
                   THEN where.val ELSE set_end(keys),
           calls |-> where.calls + 1]
     ELSE [val |-> set_end(keys), calls |-> where.calls]

set_find(keys, c, key) ==
  LET where == set_lower_bound(keys, c, key)
  IN IF where.val # set_end(keys)
     THEN [val |-> IF ~compare(c, key, keys[where.val + 1])
                   THEN where.val ELSE set_end(keys),
           calls |-> where.calls + 1]
     ELSE [val |-> set_end(keys), calls |-> where.calls]

\* variant of equal_range: the window spans every comparator-equal key
set_equal_range_multi(keys, c, key) ==
  LET lower == set_lower_bound(keys, c, key)
      same == {i \in 1..Len(keys) :
                 ~compare(c, keys[i], key) /\ ~compare(c, key, keys[i])}
  IN IF lower.val = set_end(keys)
     THEN [val |-> <<lower.val, lower.val>>, calls |-> lower.calls]
     ELSE [val |-> <<lower.val, lower.val + Cardinality(same)>>, calls |-> lower.calls]

set_equal_range(keys, c, key) ==
  LET lower == set_lower_bound(keys, c, key)
  IN IF lower.val = set_end(keys)
     THEN [val |-> <<lower.val, lower.val>>, calls |-> lower.calls]
     ELSE [val |-> <<lower.val, lower.val + 1>>, calls |-> lower.calls]

\* variant of upper_bound: the position found, not the one after it
set_upper_bound_same(keys, c, key) ==
  LET where == bits_lower_bound(keys, key, c)
  IN IF where.val # set_end(keys)
     THEN [val |-> IF ~compare(c, key, keys[where.val + 1])
                   THEN where.val ELSE set_end(keys),
           calls |-> where.calls + 1]
     ELSE [val |-> set_end(keys), calls |-> where.calls]

set_upper_bound(keys, c, key) ==
  LET where == bits_lower_bound(keys, key, c)
  IN IF where.val # set_end(keys)
     THEN [val |-> IF ~compare(c, key, keys[where.val + 1])
                   THEN where.val + 1 ELSE set_end(keys),
           calls |-> where.calls + 1]
     ELSE [val |-> set_end(keys), calls |-> where.calls]

set_key_comp(c) == c
set_value_comp(c) == c

\* ---- frozen::set<Key, 0, Compare> ----
\* the only position of the storage-less set
nullptr == 0

\* set(bits::carray<Key, 0>, Compare const&) {} : compare_ is default-initialised
set0_ctor(keys, comp) == [compare_ |-> DefaultCompare, keys_ |-> <<>>]
\* explicit set(bits::carray<Key, 0>) {}
set0_ctor_default(keys) == [compare_ |-> DefaultCompare, keys_ |-> <<>>]
\* set(std::initializer_list<Key>, Compare const& comp) : compare_{comp} {}
set0_ctor_list(list, comp) == [compare_ |-> comp, keys_ |-> <<>>]
\* set(std::initializer_list<Key> keys) : set{keys, Compare{}} {}
set0_ctor_list_default(list) == set0_ctor_list(list, DefaultCompare)

set0_empty == TRUE
set0_size == 0
set0_max_size == 0
set0_begin == nullptr
set0_end == nullptr
set0_rbegin == nullptr
set0_rend == nullptr
\* variant of the N = 0 count: reports a match
set0_count_one(key) == [val |-> 1, calls |-> 0]
set0_count(key) == [val |-> 0, calls |-> 0]
set0_find(key) == [val |-> set0_end, calls |-> 0]
set0_equal_range(key) == [val |-> <<set0_end, set0_end>>, calls |-> 0]
set0_lower_bound(key) == [val |-> set0_end, calls |-> 0]
set0_upper_bound(key) == [val |-> set0_end, calls |-> 0]
set0_key_comp(c) == c
set0_value_comp(c) == c

\* ---- the program: one construction, then any sequence of queries ----
VARIABLES
  pc,        \* "start", "constructed" or "aborted"
  N,         \* the declared capacity (template argument)
  entry,     \* construction entry point: "array" or "list"
  in_keys,   \* the keys handed to the constructor
  in_comp,   \* the comparator handed to the constructor
  compare_,  \* member compare_
  keys_,     \* member keys_
  op,        \* the last operation
  arg,       \* its key argument
  ret,       \* its result
  calls      \* comparator invocations it made

vars == <<pc, N, entry, in_keys, in_comp, compare_, keys_, op, arg, ret, calls>>

NoArg == "none"

Init ==
  /\ pc = "start"
  /\ N = 0
  /\ entry = "none"
  /\ in_keys = <<>>
  /\ in_comp = DefaultCompare
  /\ compare_ = DefaultCompare
  /\ keys_ = <<>>
  /\ op = "none"
  /\ arg = NoArg
  /\ ret = 0
  /\ calls = 0

\* common part of every constructor action
Built(n, how, keys, comp, ok, obj, name) ==
  /\ pc' = IF ok THEN "constructed" ELSE "aborted"
  /\ N' = n
  /\ entry' = how
  /\ in_keys' = keys
  /\ in_comp' = comp
  /\ compare_' = obj.compare_
  /\ keys_' = obj.keys_
  /\ op' = name
  /\ arg' = NoArg
  /\ ret' = 0
  /\ calls' = 0

ConstructFromArray ==
  /\ pc = "start"
  /\ \E n \in Capacities \ {0} : \E keys \in SeqsOfLen(n) : \E comp \in Comparators :
       Built(n, "array", keys, comp, TRUE, set_ctor(keys, comp), "ctor")

ConstructFromArrayDefault ==
  /\ pc = "start"
  /\ \E n \in Capacities \ {0} : \E keys \in SeqsOfLen(n) :
       Built(n, "array", keys, DefaultCompare, TRUE, set_ctor_default(keys), "ctor_default")

ConstructFromList ==
  /\ pc = "start"
  /\ \E n \in Capacities \ {0} : \E list \in SeqsUpTo(MaxN) : \E comp \in Comparators :
       LET r == set_ctor_list(n, list, comp)
       IN Built(n, "list", list, comp, r.ok, r.obj, "ctor_list")

ConstructFromListDefault ==
  /\ pc = "start"
  /\ \E n \in Capacities \ {0} : \E list \in SeqsUpTo(MaxN) :
       LET r == set_ctor_list_default(n, list)
       IN Built(n, "list", list, DefaultCompare, r.ok, r.obj, "ctor_list_default")

ConstructFromArray0 ==
  /\ pc = "start"
  /\ \E comp \in Comparators :
       Built(0, "array", <<>>, comp, TRUE, set0_ctor(<<>>, comp), "ctor")

ConstructFromArray0Default ==
  /\ pc = "start"
  /\ Built(0, "array", <<>>, DefaultCompare, TRUE, set0_ctor_default(<<>>), "ctor_default")

ConstructFromList0 ==
  /\ pc = "start"
  /\ \E list \in SeqsUpTo(MaxN) : \E comp \in Comparators :
       Built(0, "list", list, comp, TRUE, set0_ctor_list(list, comp), "ctor_list")

ConstructFromList0Default ==
  /\ pc = "start"
  /\ \E list \in SeqsUpTo(MaxN) :
       Built(0, "list", list, DefaultCompare, TRUE, set0_ctor_list_default(list), "ctor_list_default")

\* common part of every query action: the object is const
Query(name, a, r, k) ==
  /\ op' = name
  /\ arg' = a
  /\ ret' = r
  /\ calls' = k
  /\ UNCHANGED <<pc, N, entry, in_keys, in_comp, compare_, keys_>>

Empty ==
  /\ pc = "constructed"
  /\ Query("empty", NoArg, IF N = 0 THEN set0_empty ELSE set_empty(keys_), 0)
Size ==
  /\ pc = "constructed"
  /\ Query("size", NoArg, IF N = 0 THEN set0_size ELSE set_size(keys_), 0)
MaxSize ==
  /\ pc = "constructed"
  /\ Query("max_size", NoArg, IF N = 0 THEN set0_max_size ELSE set_max_size(keys_), 0)
Begin ==
  /\ pc = "constructed"
  /\ Query("begin", NoArg, IF N = 0 THEN set0_begin ELSE set_begin(keys_), 0)
End ==
  /\ pc = "constructed"
  /\ Query("end", NoArg, IF N = 0 THEN set0_end ELSE set_end(keys_), 0)
RBegin ==
  /\ pc = "constructed"
  /\ Query("rbegin", NoArg, IF N = 0 THEN set0_rbegin ELSE set_rbegin(keys_), 0)
REnd ==
  /\ pc = "constructed"
  /\ Query("rend", NoArg, IF N = 0 THEN set0_rend ELSE set_rend(keys_), 0)
KeyComp ==
  /\ pc = "constructed"
  /\ Query("key_comp", NoArg, IF N = 0 THEN set0_key_comp(compare_) ELSE set_key_comp(compare_), 0)
ValueComp ==
  /\ pc = "constructed"
  /\ Query("value_comp", NoArg, IF N = 0 THEN set0_value_comp(compare_) ELSE set_value_comp(compare_), 0)

Count ==
  /\ pc = "constructed"
  /\ \E key \in Keys :
       LET r == IF N = 0 THEN set0_count(key) ELSE set_count(keys_, compare_, key)
       IN Query("count", key, r.val, r.calls)

Find ==
  /\ pc = "constructed"
  /\ \E key \in Keys :
       LET r == IF N = 0 THEN set0_find(key) ELSE set_find(keys_, compare_, key)
       IN Query("find", key, r.val, r.calls)

EqualRange ==
  /\ pc = "constructed"
  /\ \E key \in Keys :
       LET r == IF N = 0 THEN set0_equal_range(key) ELSE set_equal_range(keys_, compare_, key)
       IN Query("equal_range", key, r.val, r.calls)

LowerBound ==
  /\ pc = "constructed"
  /\ \E key \in Keys :
       LET r == IF N = 0 THEN set0_lower_bound(key) ELSE set_lower_bound(keys_, compare_, key)
       IN Query("lower_bound", key, r.val, r.calls)

UpperBound ==
  /\ pc = "constructed"
  /\ \E key \in Keys :
       LET r == IF N = 0 THEN set0_upper_bound(key) ELSE set_upper_bound(keys_, compare_, key)
       IN Query("upper_bound", key, r.val, r.calls)

Next ==
  \/ ConstructFromArray
  \/ ConstructFromArrayDefault
  \/ ConstructFromList
  \/ ConstructFromListDefault
  \/ ConstructFromArray0
  \/ ConstructFromArray0Default
  \/ ConstructFromList0
  \/ ConstructFromList0Default
  \/ Empty
  \/ Size
  \/ MaxSize
  \/ Begin
  \/ End
  \/ RBegin
  \/ REnd
  \/ KeyComp
  \/ ValueComp
  \/ Count
  \/ Find
  \/ EqualRange
  \/ LowerBound
  \/ UpperBound

Spec == Init /\ [][Next]_vars

\* ---- properties ----
Range(s) == {s[i] : i \in DOMAIN s}
BagOf(s) == [x \in Range(s) |-> Cardinality({i \in DOMAIN s : s[i] = x})]

\* neither key is ordered before the other
Equiv(c, a, b) == ~compare(c, a, b) /\ ~compare(c, b, a)
HasEquiv(keys, c, key) == \E i \in 1..Len(keys) : Equiv(c, keys[i], key)
NumEquiv(keys, c, key) == Cardinality({i \in 1..Len(keys) : Equiv(c, keys[i], key)})
Sorted(keys, c) == \A i \in 1..(Len(keys) - 1) : ~compare(c, keys[i + 1], keys[i])

Constructed == pc = "constructed"
BeginPos == IF N = 0 THEN set0_begin ELSE set_begin(keys_)
EndPos == IF N = 0 THEN set0_end ELSE set_end(keys_)
FindPos(key) == IF N = 0 THEN set0_find(key).val ELSE set_find(keys_, compare_, key).val
QueryOps == {"empty", "size", "max_size", "begin", "end", "rbegin", "rend",
             "key_comp", "value_comp", "count", "find", "equal_range",
             "lower_bound", "upper_bound"}

\* position of the first stored key not ordered before key, or N
FirstNotBefore(keys, c, key) ==
  LET cand == {i \in 0..(Len(keys) - 1) : ~compare(c, keys[i + 1], key)}
  IN IF cand = {} THEN Len(keys)
     ELSE CHOOSE i \in cand : \A j \in cand : i <= j

\* C1: once construction completes, the stored keys are sorted under the
\* comparator handed to the constructor (no adjacent pair is out of order),
\* and this still holds after any sequence of queries.
C1_Sorted == Constructed => Sorted(keys_, in_comp)

\* an input that was not sorted has been constructed and then queried
C1_Witness ==
  /\ Constructed
  /\ N >= 3
  /\ ~Sorted(in_keys, in_comp)
  /\ op = "find"

\* C2: construction from N keys only rearranges them: the stored sequence
\* holds the same keys as the input, each with the same multiplicity.
C2_Permutation ==
  (Constructed /\ Len(in_keys) = N) => BagOf(keys_) = BagOf(in_keys)

\* an unsorted input with a repeated key has been constructed
C2_Witness ==
  /\ Constructed
  /\ N >= 3
  /\ keys_ # in_keys
  /\ Cardinality(Range(in_keys)) < Len(in_keys)

\* C3 (as stated): for N > 0, lower_bound(K) is the position of the first
\* stored key not ordered before K, and end only if every stored key is
\* ordered before K.
C3_Original ==
  (Constructed /\ N > 0 /\ op = "lower_bound")
    => ret = FirstNotBefore(keys_, compare_, arg)

\* C4: find(K) returns a position holding a key comparator-equal to K when
\* such a key is stored (so for every K of an input of N keys), else end.
C4_Find ==
  (Constructed /\ op = "find") =>
    /\ HasEquiv(keys_, compare_, arg) =>
         /\ ret # EndPos
         /\ ret \in 0..(N - 1)
         /\ Equiv(compare_, keys_[ret + 1], arg)
    /\ ~HasEquiv(keys_, compare_, arg) => ret = EndPos
    /\ (Len(in_keys) = N /\ arg \in Range(in_keys)) =>
         /\ ret # EndPos
         /\ Equiv(in_comp, keys_[ret + 1], arg)

\* find of a key that is comparator-equal to a stored key without being it
C4_Witness ==
  /\ Constructed
  /\ op = "find"
  /\ ret # EndPos
  /\ arg \notin Range(keys_)
  /\ N >= 2

\* C5: count(K) is 1 when a stored key is comparator-equal to K and 0
\* otherwise, never more, also when several such keys are stored.
C5_Count ==
  (Constructed /\ op = "count") =>
    ret = IF HasEquiv(keys_, compare_, arg) THEN 1 ELSE 0

\* count of a key stored more than once
C5_Witness ==
  /\ Constructed
  /\ op = "count"
  /\ ret = 1
  /\ NumEquiv(keys_, compare_, arg) >= 2

\* C6: equal_range(K) is (find(K), find(K) + 1) when a stored key is
\* comparator-equal to K, also with duplicates, and (end, end) otherwise.
C6_EqualRange ==
  (Constructed /\ op = "equal_range") =>
    IF HasEquiv(keys_, compare_, arg)
    THEN ret[1] = FindPos(arg) /\ ret[1] # EndPos /\ ret[2] = ret[1] + 1
    ELSE ret = <<EndPos, EndPos>>

\* equal_range of a key stored more than once
C6_Witness ==
  /\ Constructed
  /\ op = "equal_range"
  /\ NumEquiv(keys_, compare_, arg) >= 2
  /\ ret[2] = ret[1] + 1

\* C7: upper_bound(K) is one past find(K) when a stored key is
\* comparator-equal to K, and end otherwise.
C7_UpperBound ==
  (Constructed /\ op = "upper_bound") =>
    ret = IF HasEquiv(keys_, compare_, arg) THEN FindPos(arg) + 1 ELSE EndPos

\* upper_bound of the last stored key: one past it is end
C7_Witness ==
  /\ Constructed
  /\ op = "upper_bound"
  /\ N >= 2
  /\ HasEquiv(keys_, compare_, arg)
  /\ FindPos(arg) = N - 1
  /\ ret = EndPos

\* C8 (as stated): construction from a literal list ends in a failure
\* exactly when the number of keys differs from the declared capacity.
C8_Original ==
  (entry = "list" /\ pc # "start") => (Constructed <=> Len(in_keys) = N)

\* C9: on the N = 0 set every query reports absence or the empty range
\* without calling the comparator, as the N > 0 definitions do on an empty
\* sequence.
C9_EmptySet ==
  (Constructed /\ N = 0 /\ op \in QueryOps) =>
    /\ calls = 0
    /\ op = "empty" => ret = TRUE /\ ret = set_empty(<<>>)
    /\ op = "size" => ret = 0 /\ ret = set_size(<<>>)
    /\ op = "max_size" => ret = 0 /\ ret = set_max_size(<<>>)
    /\ op = "begin" => ret = EndPos /\ ret = set_begin(<<>>)
    /\ op = "end" => ret = BeginPos /\ ret = set_end(<<>>)
    /\ op = "rbegin" => ret = set0_rend /\ ret = set_rbegin(<<>>)
    /\ op = "rend" => ret = set0_rbegin /\ ret = set_rend(<<>>)
    /\ op = "count" => ret = 0 /\ set_count(<<>>, compare_, arg) = [val |-> ret, calls |-> calls]
    /\ op = "find" => ret = EndPos /\ set_find(<<>>, compare_, arg) = [val |-> ret, calls |-> calls]
    /\ op = "lower_bound" =>
         ret = EndPos /\ set_lower_bound(<<>>, compare_, arg) = [val |-> ret, calls |-> calls]
    /\ op = "upper_bound" =>
         ret = EndPos /\ set_upper_bound(<<>>, compare_, arg) = [val |-> ret, calls |-> calls]
    /\ op = "equal_range" =>
         /\ ret = <<EndPos, EndPos>>
         /\ set_equal_range(<<>>, compare_, arg) = [val |-> ret, calls |-> calls]

\* a count on the N = 0 set
C9_Witness ==
  /\ Constructed
  /\ N = 0
  /\ op = "count"
  /\ arg \in Keys

\* C10 (as stated): the stored comparator, which key_comp() and value_comp()
\* return, is the one handed to the constructor, for every entry point and N.
C10_Original ==
  Constructed =>
    /\ compare_ = in_comp
    /\ op \in {"key_comp", "value_comp"} => ret = in_comp

====
